---- MODULE Spec2Model ----
(***************************************************************************)
(* Model of telegram_to_markdown.py: the conversion of an exported chat    *)
(* archive (JSON) into a Markdown document.                                *)
(*                                                                         *)
(* Representation.                                                         *)
(*   - A Python str is a sequence of one-character strings, so len(),      *)
(*     slicing, replace() and concatenation are the sequence operations.   *)
(*     Literal fragments of an f-string that are never measured or sliced  *)
(*     (such as "### ") are kept as one element.                           *)
(*   - A JSON scalar is a record [k, s]: k is its kind ("absent" when the  *)
(*     key is not in the mapping, "null", "str", "int", "dict"), s is      *)
(*     its characters.                                                     *)
(*   - An integer key (id, reply_to_message_id) is <<>> when the key is    *)
(*     absent and <<n>> when it holds n.                                   *)
(*   - An uncaught Python exception is recorded in the variable raised.    *)
(***************************************************************************)
EXTENDS Integers, Sequences, FiniteSets, TLC

VARIABLES
  input_exists,   \* file system: input_path.exists()
  input_json,     \* file system: the input is "mapping", "not_mapping" or "malformed" JSON
  input_data,     \* file system: the archive the input file holds
  chat_data,      \* main's chat_data: [name, type, id, messages]
  pc,             \* position of main()
  header,         \* generate_chat_header's lines
  message_index,  \* convert_to_markdown's message_index
  idx,            \* 1-based position of convert_to_markdown's message loop
  output_parts,   \* convert_to_markdown's output_parts
  lines,          \* format_message's lines, of the latest call
  text,           \* format_message's text, of the latest call
  media_info,     \* format_message's media_info, of the latest call
  markdown_content, \* main's markdown_content
  dir_created,    \* file system: the output's parent directories were created
  written,        \* file system: <<>> with no output file, else <<its content>>
  printed,        \* standard output, one entry per print()
  exit_code,      \* main's return value (-1: not returned)
  raised          \* the uncaught exception ("": none)

vars == <<input_exists, input_json, input_data, chat_data, pc, header,
          message_index, idx, output_parts, lines, text, media_info,
          markdown_content, dir_created, written, printed, exit_code, raised>>

----------------------------------------------------------------------------
(* Bounds of the model *)

MaxMsgs == 2
MaxSpans == 2
LongExtra == 2

(* len(original_text) > 100, original_text[:100] *)
ReplyLimit == 100

----------------------------------------------------------------------------
(* Strings *)

NL == "\n"

(* the backquote character, which a TLA+ string cannot hold *)
BT == "<backquote>"

(* sep.join(parts) *)
RECURSIVE Join(_, _)
Join(parts, sep) ==
  IF parts = <<>> THEN <<>>
  ELSE IF Len(parts) = 1 THEN parts[1]
  ELSE parts[1] \o <<sep>> \o Join(Tail(parts), sep)

(* s.replace(old, new), old and new one character each *)
Replace(s, old, new) == [i \in 1..Len(s) |-> IF s[i] = old THEN new ELSE s[i]]

(* s[:n] *)
Prefix(s, n) == SubSeq(s, 1, IF Len(s) < n THEN Len(s) ELSE n)

(* s.startswith(c), c one character *)
StartsWith(s, c) == Len(s) > 0 /\ s[1] = c

(* s.strip(), the only whitespace of the model being the space *)
RECURSIVE LStrip(_)
LStrip(s) == IF s # <<>> /\ Head(s) = " " THEN LStrip(Tail(s)) ELSE s

RECURSIVE RStrip(_)
RStrip(s) ==
  IF s # <<>> /\ s[Len(s)] = " " THEN RStrip(SubSeq(s, 1, Len(s) - 1)) ELSE s

Strip(s) == RStrip(LStrip(s))

(* ord(c), for the characters the archives of the model are written in *)
Ord(c) ==
  CASE c = " " -> 32 [] c = "-" -> 45
    [] c = "0" -> 48 [] c = "1" -> 49 [] c = "2" -> 50 [] c = "3" -> 51
    [] c = "4" -> 52 [] c = "5" -> 53 [] c = "6" -> 54 [] c = "7" -> 55
    [] c = "8" -> 56 [] c = "9" -> 57 [] c = ":" -> 58
    [] c = "A" -> 65 [] c = "B" -> 66 [] c = "T" -> 84 [] c = "Z" -> 90
    [] c = "_" -> 95 [] c = "a" -> 97 [] c = "b" -> 98 [] c = "g" -> 103
    [] OTHER -> 0

Digits == {"0", "1", "2", "3", "4", "5", "6", "7", "8", "9"}

(* a < b for two str: Python compares code point by code point *)
RECURSIVE StrLess(_, _)
StrLess(a, b) ==
  IF b = <<>> THEN FALSE
  ELSE IF a = <<>> THEN TRUE
  ELSE IF Ord(Head(a)) # Ord(Head(b)) THEN Ord(Head(a)) < Ord(Head(b))
  ELSE StrLess(Tail(a), Tail(b))

(* min(S), max(S) of a non-empty set of str *)
MinStr(S) == CHOOSE a \in S : \A b \in S : a = b \/ StrLess(a, b)
MaxStr(S) == CHOOSE a \in S : \A b \in S : a = b \/ StrLess(b, a)

(* Sorted from the greatest down *)
RECURSIVE Sorted_descending(_)
Sorted_descending(S) ==
  IF S = {} THEN <<>> ELSE <<MaxStr(S)>> \o Sorted_descending(S \ {MaxStr(S)})

(* sorted(S) of a set of str *)
RECURSIVE Sorted(_)
Sorted(S) == IF S = {} THEN <<>> ELSE <<MinStr(S)>> \o Sorted(S \ {MinStr(S)})

----------------------------------------------------------------------------
(* JSON values *)

Absent == [k |-> "absent", s |-> <<>>]
Null == [k |-> "null", s |-> <<>>]
Str(s) == [k |-> "str", s |-> s]
Num(s) == [k |-> "int", s |-> s]      \* a non-zero number, s its digits

(* 'key' in mapping *)
Has(v) == v.k # "absent"

(* mapping.get(key, default) *)
Get(v, default) == IF Has(v) THEN v ELSE default

(* bool(v) *)
Truthy(v) == (v.k = "str" /\ v.s # <<>>) \/ v.k = "int"

(* str(v), as an f-string interpolates it *)
Show(v) == IF v.k = "null" THEN <<"N", "o", "n", "e">> ELSE v.s

Lit(token) == Str(<<token>>)

----------------------------------------------------------------------------
(* format_timestamp *)

(* datetime.fromisoformat accepts s.  The archives of the model carry dates  *)
(* of the form YYYY-MM-DDTHH:MM:SS with an optional trailing Z, or text that *)
(* is no date at all; on those, this is what fromisoformat decides.          *)
IsIso(s) ==
  /\ Len(s) \in {19, 20}
  /\ \A i \in {1, 2, 3, 4, 6, 7, 9, 10, 12, 13, 15, 16, 18, 19} : s[i] \in Digits
  /\ s[5] = "-" /\ s[8] = "-" /\ s[14] = ":" /\ s[17] = ":"
  /\ Len(s) = 20 => s[20] = "Z"

format_timestamp(date) ==
  IF date.k = "str" /\ IsIso(date.s)
  THEN SubSeq(date.s, 1, 10) \o <<" ">> \o SubSeq(date.s, 12, 19)
  ELSE Show(date)

----------------------------------------------------------------------------
(* extract_text_content *)

(* what one element of the list appends to result; nothing when the element *)
(* is neither a str nor a mapping                                           *)
SpanText(item) ==
  IF item.k = "str" THEN item.text.s
  ELSE IF item.k = "dict" THEN
    LET t == Show(Get(item.text, Str(<<>>)))
        href == Show(Get(item.href, Str(<<>>)))
    IN  CASE item.type = "bold" -> <<"*", "*">> \o t \o <<"*", "*">>
          [] item.type = "italic" -> <<"*">> \o t \o <<"*">>
          [] item.type = "code" -> <<BT>> \o t \o <<BT>>
          [] item.type = "pre" ->
               <<NL, BT, BT, BT, NL>> \o t \o <<NL, BT, BT, BT, NL>>
          [] item.type = "text_link" ->
               <<"[">> \o t \o <<"]", "(">> \o href \o <<")">>
          [] item.type \in {"mention", "mention_name"} ->
               IF StartsWith(t, "@") THEN t ELSE <<"@">> \o t
          [] item.type = "strikethrough" -> <<"~", "~">> \o t \o <<"~", "~">>
          [] item.type = "underline" ->
               <<"<", "u", ">">> \o t \o <<"<", "/", "u", ">">>
          [] item.type = "spoiler" -> <<"|", "|">> \o t \o <<"|", "|">>
          [] OTHER -> t
  ELSE <<>>

(* the element makes extract_text_content raise: text.startswith on a text *)
(* that is no str, or ''.join over an element that is no str               *)
SpanRaises(item) ==
  /\ item.k = "dict"
  /\ Has(item.text)
  /\ item.text.k # "str"
  /\ item.type \notin {"bold", "italic", "code", "pre", "text_link",
                       "strikethrough", "underline", "spoiler"}

(* JoinSpans with the later element put in front *)
RECURSIVE JoinSpans_reversed(_)
JoinSpans_reversed(items) ==
  IF items = <<>> THEN <<>>
  ELSE JoinSpans_reversed(Tail(items)) \o SpanText(Head(items))

RECURSIVE JoinSpans(_)
JoinSpans(items) ==
  IF items = <<>> THEN <<>> ELSE SpanText(Head(items)) \o JoinSpans(Tail(items))

extract_text_content(text_field) ==
  IF text_field.k = "str" THEN text_field.s
  ELSE IF text_field.k = "list" THEN JoinSpans(text_field.items)
  ELSE IF text_field.k = "int" THEN text_field.s
  ELSE <<>>

(* the exception extract_text_content ends with, "" when it returns: a    *)
(* mention's text.startswith fails inside the loop, the join after it     *)
extract_exception(text_field) ==
  IF text_field.k # "list" THEN ""
  ELSE IF \E i \in 1..Len(text_field.items) :
            /\ SpanRaises(text_field.items[i])
            /\ text_field.items[i].type \in {"mention", "mention_name"}
       THEN "AttributeError"
  ELSE IF \E i \in 1..Len(text_field.items) : SpanRaises(text_field.items[i])
       THEN "TypeError"
  ELSE ""

----------------------------------------------------------------------------
(* get_message_type_info *)

KnownMediaTypes ==
  {"sticker", "voice_message", "video_message", "animation", "video_file",
   "audio_file"}

Zero == [k |-> "int", s |-> <<"0">>]

(* lines 89-107: the tag the media type decides *)
MediaTypeTag(message) ==
  LET media_type == message.media_type
      duration == Show(Get(message.duration_seconds, Zero))
  IN
  IF media_type = "sticker"
  THEN <<"[Sticker ">> \o Show(Get(message.sticker_emoji, Str(<<>>))) \o <<"]">>
  ELSE IF media_type = "voice_message"
  THEN <<"[Voice message - ">> \o duration \o <<"s]">>
  ELSE IF media_type = "video_message"
  THEN <<"[Video message - ">> \o duration \o <<"s]">>
  ELSE IF media_type = "animation" THEN <<"[GIF]">>
  ELSE IF media_type = "video_file" THEN <<"[Video]">>
  ELSE LET title == Get(message.title, Lit("Audio"))
           performer == Get(message.performer, Str(<<>>))
       IN  IF Truthy(performer)
           THEN <<"[Audio: ">> \o Show(performer) \o <<" - ">> \o Show(title)
                \o <<"]">>
           ELSE <<"[Audio: ">> \o Show(title) \o <<"]">>

(* lines 109-138: the tag the payload fields decide *)
PayloadTag(message) ==
  IF Has(message.photo) THEN <<"[Photo]">>
  ELSE IF Has(message.file)
  THEN <<"[File: ">>
       \o Show(Get(message.file_name, Get(message.file, Lit("File"))))
       \o <<"]">>
  ELSE IF message.location_information.k # "absent"
  THEN LET loc == message.location_information
       IN  <<"[Location: ">> \o Show(Get(loc.latitude, Str(<<>>))) \o <<", ">>
           \o Show(Get(loc.longitude, Str(<<>>))) \o <<"]">>
  ELSE IF message.contact_information.k # "absent"
  THEN LET contact == message.contact_information
           name == Get(contact.first_name, Str(<<>>)).s \o <<" ">>
                   \o Get(contact.last_name, Str(<<>>)).s
       IN  <<"[Contact: ">> \o Strip(name) \o <<" - ">>
           \o Show(Get(contact.phone_number, Str(<<>>))) \o <<"]">>
  ELSE IF message.poll.k # "absent"
  THEN <<"[Poll: ">> \o Show(Get(message.poll.question, Lit("Poll"))) \o <<"]">>
  ELSE <<>>

(* get_message_type_info with the payload fields looked at first *)
get_message_type_info_payload_first(message) ==
  IF PayloadTag(message) # <<>> THEN PayloadTag(message)
  ELSE IF message.media_type \in KnownMediaTypes THEN MediaTypeTag(message)
  ELSE <<>>

get_message_type_info(message) ==
  IF message.media_type \in KnownMediaTypes
  THEN MediaTypeTag(message)
  ELSE PayloadTag(message)

(* the exception get_message_type_info ends with, "" when it returns: .get *)
(* on a payload that is no mapping, or + between a name part that is no    *)
(* str and ' '                                                             *)
media_exception(message) ==
  IF \/ message.media_type \in KnownMediaTypes
     \/ Has(message.photo)
     \/ Has(message.file)
  THEN ""
  ELSE IF message.location_information.k # "absent"
  THEN IF message.location_information.k # "dict" THEN "AttributeError" ELSE ""
  ELSE IF message.contact_information.k # "absent"
  THEN IF message.contact_information.k # "dict" THEN "AttributeError"
       ELSE IF \/ Get(message.contact_information.first_name, Str(<<>>)).k # "str"
               \/ Get(message.contact_information.last_name, Str(<<>>)).k # "str"
            THEN "TypeError"
       ELSE ""
  ELSE IF message.poll.k # "absent" /\ message.poll.k # "dict" THEN "AttributeError"
  ELSE ""

----------------------------------------------------------------------------
(* format_service_message *)

format_service_message(message) ==
  LET action == message.action
      actor == Show(Get(message.actor, Get(message.from, Lit("Someone"))))
      Actor(tail) == <<"*">> \o actor \o <<tail>>
  IN
  CASE action = "create_group" -> Actor(" created the group*")
    [] action = "invite_members" -> Actor(" invited members to the group*")
    [] action = "remove_members" -> Actor(" removed members from the group*")
    [] action = "join_group_by_link" ->
         Actor(" joined the group via invite link*")
    [] action = "leave_group" -> Actor(" left the group*")
    [] action = "pin_message" -> Actor(" pinned a message*")
    [] action = "edit_group_title" ->
         Actor(" changed the group title to \"")
         \o Show(Get(message.title, Str(<<>>))) \o <<"\"*">>
    [] action = "edit_group_photo" -> Actor(" changed the group photo*")
    [] action = "delete_group_photo" -> Actor(" deleted the group photo*")
    [] action = "migrate_from_group" -> <<"*Group upgraded to supergroup*">>
    [] action = "migrate_to_supergroup" -> <<"*Group upgraded to supergroup*">>
    [] action = "phone_call" -> <<"*Phone call with ">> \o actor \o <<"*">>
    [] action = "score_in_game" -> Actor(" scored in a game*")
    [] action = "bot_allowed" -> <<"*Bot allowed by ">> \o actor \o <<"*">>
    [] OTHER -> <<"*[", action, "]*">>

----------------------------------------------------------------------------
(* build_message_index *)

Max(S) == CHOOSE x \in S : \A y \in S : y <= x

Min(S) == CHOOSE x \in S : \A y \in S : x <= y

(* build_message_index keeping the first message of an id, not the last *)
build_message_index_first(messages) ==
  LET Carrying(k) == {i \in 1..Len(messages) : messages[i].id = <<k>>}
      ids == {messages[i].id[1] : i \in {j \in 1..Len(messages) : messages[j].id # <<>>}}
  IN  [k \in ids |-> messages[Min(Carrying(k))]]

(* a dict comprehension: a later message with the same id replaces the *)
(* earlier one                                                         *)
build_message_index(messages) ==
  LET Carrying(k) == {i \in 1..Len(messages) : messages[i].id = <<k>>}
      ids == {messages[i].id[1] : i \in {j \in 1..Len(messages) : messages[j].id # <<>>}}
  IN  [k \in ids |-> messages[Max(Carrying(k))]]

----------------------------------------------------------------------------
(* format_message *)

(* the fixed openings of the reply, forward and media lines; the arrows and *)
(* the paperclip are spelled out, a TLA+ string being ASCII                *)
ReplyMark == "> **<arrow-left> Reply to "
ForwardMark == "> **<arrow-right> Forwarded from "
MediaMark == "<paperclip> "

ShowId(id) == IF id = <<>> THEN <<>> ELSE <<ToString(id[1])>>

(* reply_to_id and reply_to_id in message_index *)
ReplyResolves(message, index) ==
  /\ message.reply_to_message_id # <<>>
  /\ message.reply_to_message_id[1] # 0
  /\ message.reply_to_message_id[1] \in DOMAIN index

(* ReplyQuote truncating from 100 characters on, not from 101 *)
ReplyQuote_from_limit(original) ==
  LET original_text == extract_text_content(original.text)
      truncated == IF Len(original_text) >= ReplyLimit
                   THEN Prefix(original_text, ReplyLimit) \o <<".", ".", ".">>
                   ELSE original_text
  IN  Replace(truncated, NL, " ")

(* original_text, from the extraction to the reply line *)
ReplyQuote(original) ==
  LET original_text == extract_text_content(original.text)
      truncated == IF Len(original_text) > ReplyLimit
                   THEN Prefix(original_text, ReplyLimit) \o <<".", ".", ".">>
                   ELSE original_text
  IN  Replace(truncated, NL, " ")

ReplyLines(message, index) ==
  IF ReplyResolves(message, index)
  THEN LET original == index[message.reply_to_message_id[1]]
           original_sender == Show(Get(original.from, Get(original.actor, Lit("Unknown"))))
       IN  << <<ReplyMark>> \o original_sender \o <<":** ">>
              \o ReplyQuote(original),
              <<>> >>
  ELSE <<>>

ForwardLines(message) ==
  IF Truthy(message.forwarded_from)
  THEN << <<ForwardMark>> \o Show(message.forwarded_from) \o <<"**">>,
          <<>> >>
  ELSE <<>>

(* ContentLines with the placeholder decided by the body text alone *)
ContentLines_placeholder_on_no_text(body, media) ==
  (IF media # <<>>
   THEN << <<MediaMark>> \o media >> \o (IF body # <<>> THEN << <<>> >> ELSE <<>>)
   ELSE <<>>)
  \o (IF body # <<>> THEN <<body>> ELSE << <<"*[Empty message]*">> >>)

ContentLines(body, media) ==
  (IF media # <<>>
   THEN << <<MediaMark>> \o media >> \o (IF body # <<>> THEN << <<>> >> ELSE <<>>)
   ELSE <<>>)
  \o (IF body # <<>> THEN <<body>> ELSE <<>>)
  \o (IF body = <<>> /\ media = <<>> THEN << <<"*[Empty message]*">> >> ELSE <<>>)

format_message_lines(message, index) ==
  IF message.type = "service"
  THEN << <<"> ">> \o format_service_message(message),
          <<"> *">> \o format_timestamp(Get(message.date, Str(<<>>))) \o <<"*">>,
          <<>> >>
  ELSE LET sender == Show(Get(message.from, Get(message.actor, Lit("Unknown"))))
           timestamp == format_timestamp(Get(message.date, Str(<<>>)))
       IN  << <<"### ">> \o sender,
              <<"*">> \o timestamp \o <<"* | Message #">> \o ShowId(message.id),
              <<>> >>
           \o ReplyLines(message, index)
           \o ForwardLines(message)
           \o ContentLines(extract_text_content(message.text),
                           get_message_type_info(message))
           \o << <<>>, <<"---">>, <<>> >>

format_message(message, index) == Join(format_message_lines(message, index), NL)

(* the exception format_message ends with, "" when it returns: the first *)
(* of its callees' in the order of the calls                             *)
format_message_exception(message, index) ==
  IF message.type = "service" THEN ""
  ELSE IF /\ ReplyResolves(message, index)
          /\ extract_exception(index[message.reply_to_message_id[1]].text) # ""
       THEN extract_exception(index[message.reply_to_message_id[1]].text)
  ELSE IF extract_exception(message.text) # "" THEN extract_exception(message.text)
  ELSE media_exception(message)

----------------------------------------------------------------------------
(* generate_chat_header *)

(* c.upper(), c.lower(), c.isalpha(), for the letters chat types are written in *)
Upper(c) ==
  CASE c = "a" -> "A" [] c = "b" -> "B" [] c = "g" -> "G" [] c = "k" -> "K"
    [] c = "n" -> "N" [] c = "o" -> "O" [] c = "t" -> "T" [] c = "u" -> "U"
    [] c = "w" -> "W"
    [] OTHER -> c
Lower(c) ==
  CASE c = "A" -> "a" [] c = "B" -> "b" [] c = "G" -> "g" [] c = "K" -> "k"
    [] c = "N" -> "n" [] c = "O" -> "o" [] c = "T" -> "t" [] c = "U" -> "u"
    [] c = "W" -> "w"
    [] OTHER -> c
IsLetter(c) == Upper(c) # c \/ Lower(c) # c

(* s.title() *)
Title(s) ==
  [i \in 1..Len(s) |->
     IF i > 1 /\ IsLetter(s[i - 1]) THEN Lower(s[i]) ELSE Upper(s[i])]

(* [m.get('date') for m in messages if m.get('date')] *)
Dates(messages) ==
  {messages[i].date : i \in {j \in 1..Len(messages) : Truthy(messages[j].date)}}

(* min(dates) and max(dates) compare a str with a number *)
DatesMixed(messages) == \E a, b \in Dates(messages) : a.k # b.k

(* msg.get('from') or msg.get('actor'), kept when truthy *)
Participants(messages) ==
  LET sender(m) == IF Truthy(m.from) THEN m.from ELSE m.actor
  IN  {sender(messages[i]).s :
         i \in {j \in 1..Len(messages) : Truthy(sender(messages[j]))}}

RECURSIVE Bullets(_)
Bullets(names) ==
  IF names = <<>> THEN <<>>
  ELSE << <<"- ">> \o Head(names) >> \o Bullets(Tail(names))

generate_chat_header_lines(data) ==
  LET chat_name == Show(Get(data.name, Lit("Telegram Chat")))
      chat_type == Get(data.type, Str(<<"u", "n", "k", "n", "o", "w", "n">>))
      messages == data.messages
      dates == {d.s : d \in Dates(messages)}
      participants == Participants(messages)
  IN  << <<"# ">> \o chat_name,
         <<>>,
         <<"## Chat Details">>,
         <<>>,
         <<"| Property | Value |">>,
         <<"|----------|-------|">>,
         <<"| **Name** | ">> \o chat_name \o <<" |">>,
         <<"| **Type** | ">> \o Title(Replace(chat_type.s, "_", " ")) \o <<" |">>,
         <<"| **ID** | ">> \o Show(data.id) \o <<" |">>,
         <<"| **Total Messages** | ", ToString(Len(messages)), " |">> >>
      \o (IF dates # {}
          THEN << <<"| **First Message** | ">>
                    \o format_timestamp(Str(MinStr(dates))) \o <<" |">>,
                  <<"| **Last Message** | ">>
                    \o format_timestamp(Str(MaxStr(dates))) \o <<" |">> >>
          ELSE <<>>)
      \o (IF participants # {}
          THEN << <<"| **Participants** | ", ToString(Cardinality(participants)), " |">> >>
          ELSE <<>>)
      \o << <<>> >>
      \o (IF participants # {}
          THEN << <<"### Participants">>, <<>> >>
               \o Bullets(Sorted(participants)) \o << <<>> >>
          ELSE <<>>)
      \o << <<"---">>, <<>>, <<"## Messages">>, <<>> >>

generate_chat_header(data) == Join(generate_chat_header_lines(data), NL)

(* the exception generate_chat_header ends with, "" when it returns:     *)
(* chat_type.replace on a type that is no str, min(dates) over mixed types *)
header_exception(data) ==
  IF Get(data.type, Str(<<>>)).k # "str" THEN "AttributeError"
  ELSE IF DatesMixed(data.messages) THEN "TypeError"
  ELSE ""

----------------------------------------------------------------------------
(* Archives *)

NoText == [k |-> "absent", s |-> <<>>, items |-> <<>>]
TextStr(s) == [k |-> "str", s |-> s, items |-> <<>>]
TextList(items) == [k |-> "list", s |-> <<>>, items |-> items]

PlainSpan(s) == [k |-> "str", type |-> "", text |-> Str(s), href |-> Absent]
Entity(type, t, href) == [k |-> "dict", type |-> type, text |-> t, href |-> href]

NoLocation == [k |-> "absent", latitude |-> Absent, longitude |-> Absent]
NoContact ==
  [k |-> "absent", first_name |-> Absent, last_name |-> Absent,
   phone_number |-> Absent]
NoPoll == [k |-> "absent", question |-> Absent]

(* YYYY-MM-DDTHH:MM:SS, day and hour one digit each *)
IsoDate(d, h) ==
  Str(<<"2", "0", "2", "4", "-", "0", "1", "-", "0", d, "T", "1", h, ":",
        "0", "0", ":", "0", "0">>)

(* a message that carries no key at all but its type *)
BareMsg ==
  [type |-> "message", id |-> <<>>, from |-> Absent, actor |-> Absent,
   date |-> Absent, text |-> NoText, reply_to_message_id |-> <<>>,
   forwarded_from |-> Absent, media_type |-> "", sticker_emoji |-> Absent,
   duration_seconds |-> Absent, title |-> Absent, performer |-> Absent,
   photo |-> Absent, file |-> Absent, file_name |-> Absent,
   location_information |-> NoLocation, contact_information |-> NoContact,
   poll |-> NoPoll, action |-> ""]

NoData == [name |-> Absent, type |-> Absent, id |-> Absent, messages |-> <<>>]

Archive(messages) ==
  [name |-> Str(<<"A", " ", "B">>), type |-> Str(<<"a", "_", "b">>),
   id |-> Num(<<"7">>), messages |-> messages]

(* the sequences over S of length at most n *)
SeqsUpTo(S, n) == UNION {[1..k -> S] : k \in 0..n}

----------------------------------------------------------------------------
(* main *)

NoIndex == [k \in {} |-> BareMsg]

Begin ==
  /\ chat_data = NoData
  /\ pc = "start"
  /\ header = <<>>
  /\ message_index = NoIndex
  /\ idx = 0
  /\ output_parts = <<>>
  /\ lines = <<>>
  /\ text = <<>>
  /\ media_info = <<>>
  /\ markdown_content = <<>>
  /\ dir_created = FALSE
  /\ written = <<>>
  /\ printed = <<>>
  /\ exit_code = -1
  /\ raised = ""

(* the files main can be pointed at: none, one that is no JSON, one whose *)
(* JSON is no mapping, and the archives of the set given                  *)
InitOver(archives) ==
  /\ Begin
  /\ \/ /\ input_exists = FALSE
        /\ input_json = "malformed"
        /\ input_data = NoData
     \/ /\ input_exists = TRUE
        /\ input_json \in {"malformed", "not_mapping"}
        /\ input_data = NoData
     \/ /\ input_exists = TRUE
        /\ input_json = "mapping"
        /\ input_data \in archives

Files == <<input_exists, input_json, input_data>>
Conversion == <<header, message_index, idx, output_parts, lines, text, media_info>>

(* InputNotFound with the output directory made before the check *)
InputNotFound_mkdir_first ==
  /\ pc = "start"
  /\ ~input_exists
  /\ dir_created' = TRUE
  /\ printed' = Append(printed, "Error: Input file not found.")
  /\ exit_code' = 1
  /\ pc' = "returned"
  /\ UNCHANGED <<Files, chat_data, Conversion, markdown_content, written, raised>>

(* lines 341-343 *)
InputNotFound ==
  /\ pc = "start"
  /\ ~input_exists
  /\ printed' = Append(printed, "Error: Input file not found.")
  /\ exit_code' = 1
  /\ pc' = "returned"
  /\ UNCHANGED <<Files, chat_data, Conversion, markdown_content, dir_created,
                 written, raised>>

(* lines 345-353 *)
LoadChatData ==
  /\ pc = "start"
  /\ input_exists
  /\ printed' = Append(printed, "Loading chat data from")
  /\ IF input_json = "malformed"
     THEN /\ raised' = "JSONDecodeError"
          /\ pc' = "raised"
          /\ UNCHANGED chat_data
     ELSE /\ chat_data' = input_data
          /\ pc' = "loaded"
          /\ UNCHANGED raised
  /\ UNCHANGED <<Files, Conversion, markdown_content, dir_created, written,
                 exit_code>>

(* lines 355-356 and 301-304 *)
GenerateHeader ==
  /\ pc = "loaded"
  /\ IF input_json = "not_mapping"
     THEN /\ raised' = "AttributeError"
          /\ pc' = "raised"
          /\ UNCHANGED <<printed, header, output_parts>>
     ELSE /\ printed' = Append(printed, "Converting messages")
          /\ IF header_exception(chat_data) # ""
             THEN /\ raised' = header_exception(chat_data)
                  /\ pc' = "raised"
                  /\ UNCHANGED <<header, output_parts>>
             ELSE /\ header' = generate_chat_header_lines(chat_data)
                  /\ output_parts' = <<generate_chat_header(chat_data)>>
                  /\ pc' = "header"
                  /\ UNCHANGED raised
  /\ UNCHANGED <<Files, chat_data, message_index, idx, lines, text, media_info,
                 markdown_content, dir_created, written, exit_code>>

(* lines 307-308 *)
BuildIndex ==
  /\ pc = "header"
  /\ message_index' = build_message_index(chat_data.messages)
  /\ idx' = 1
  /\ pc' = "loop"
  /\ UNCHANGED <<Files, chat_data, header, output_parts, lines, text, media_info,
                 markdown_content, dir_created, written, printed, exit_code,
                 raised>>

(* FormatNext with service messages passed over *)
FormatNext_skip_service ==
  /\ pc = "loop"
  /\ idx <= Len(chat_data.messages)
  /\ LET message == chat_data.messages[idx]
     IN  IF message.type = "service"
         THEN UNCHANGED <<output_parts, lines, text, media_info>>
         ELSE /\ lines' = format_message_lines(message, message_index)
              /\ text' = extract_text_content(message.text)
              /\ media_info' = get_message_type_info(message)
              /\ output_parts' =
                   Append(output_parts, format_message(message, message_index))
  /\ idx' = idx + 1
  /\ UNCHANGED <<Files, chat_data, header, message_index, markdown_content,
                 dir_created, written, printed, exit_code, pc, raised>>

(* lines 310-312, one iteration *)
FormatNext ==
  /\ pc = "loop"
  /\ idx <= Len(chat_data.messages)
  /\ LET message == chat_data.messages[idx]
     IN  IF format_message_exception(message, message_index) # ""
         THEN /\ raised' = format_message_exception(message, message_index)
              /\ pc' = "raised"
              /\ UNCHANGED <<idx, output_parts, lines, text, media_info>>
         ELSE /\ lines' = format_message_lines(message, message_index)
              /\ text' = IF message.type = "service" THEN <<>>
                         ELSE extract_text_content(message.text)
              /\ media_info' = IF message.type = "service" THEN <<>>
                               ELSE get_message_type_info(message)
              /\ output_parts' =
                   Append(output_parts, format_message(message, message_index))
              /\ idx' = idx + 1
              /\ UNCHANGED <<pc, raised>>
  /\ UNCHANGED <<Files, chat_data, header, message_index, markdown_content,
                 dir_created, written, printed, exit_code>>

(* line 314 *)
FinishConversion ==
  /\ pc = "loop"
  /\ idx > Len(chat_data.messages)
  /\ markdown_content' = Join(output_parts, NL)
  /\ pc' = "converted"
  /\ UNCHANGED <<Files, chat_data, Conversion, dir_created, written, printed,
                 exit_code, raised>>

(* line 359 *)
MakeDirs ==
  /\ pc = "converted"
  /\ dir_created' = TRUE
  /\ pc' = "dirs"
  /\ UNCHANGED <<Files, chat_data, Conversion, markdown_content, written,
                 printed, exit_code, raised>>

(* lines 360-361 *)
WriteOutput ==
  /\ pc = "dirs"
  /\ written' = <<markdown_content>>
  /\ pc' = "written"
  /\ UNCHANGED <<Files, chat_data, Conversion, markdown_content, dir_created,
                 printed, exit_code, raised>>

(* lines 363-364 *)
ReturnSuccess ==
  /\ pc = "written"
  /\ printed' = Append(printed, "Markdown saved to")
  /\ exit_code' = 0
  /\ pc' = "returned"
  /\ UNCHANGED <<Files, chat_data, Conversion, markdown_content, dir_created,
                 written, raised>>

Next ==
  \/ InputNotFound
  \/ LoadChatData
  \/ GenerateHeader
  \/ BuildIndex
  \/ FormatNext
  \/ FinishConversion
  \/ MakeDirs
  \/ WriteOutput
  \/ ReturnSuccess

----------------------------------------------------------------------------
(* The archives of Spec: content and service messages as an export carries *)
(* them, and message records with a field of an unexpected type.           *)

CoreContent ==
  {[BareMsg EXCEPT !.id = i, !.from = f, !.text = t, !.date = IsoDate("1", "0")] :
     i \in {<<>>, <<1>>}, f \in {Absent, Str(<<"A">>)},
     t \in {NoText, TextStr(<<"a">>)}}

CoreService ==
  {[BareMsg EXCEPT !.type = "service", !.action = a, !.actor = c,
                   !.date = IsoDate("2", "0")] :
     a \in {"create_group", "edit_group_title", "topic_created"},
     c \in {Absent, Str(<<"B">>)}}

MalformedMsgs ==
  { [BareMsg EXCEPT !.text = TextList(<<Entity("mention", Null, Absent)>>)],
    [BareMsg EXCEPT !.text = TextList(<<Entity("link", Null, Absent)>>)],
    [BareMsg EXCEPT !.text = TextList(<<Entity("bold", Null, Absent)>>)],
    [BareMsg EXCEPT !.contact_information =
       [NoContact EXCEPT !.k = "dict", !.first_name = Null]],
    [BareMsg EXCEPT !.location_information = [NoLocation EXCEPT !.k = "null"]],
    [BareMsg EXCEPT !.poll = [NoPoll EXCEPT !.k = "str"]],
    [BareMsg EXCEPT !.date = Num(<<"5">>)],
    [BareMsg EXCEPT !.from = Null, !.text = [NoText EXCEPT !.k = "null"]] }

Archives ==
  {Archive(ms) : ms \in SeqsUpTo(CoreContent \cup CoreService \cup MalformedMsgs, MaxMsgs)}

Init == InitOver(Archives)

Spec == Init /\ [][Next]_vars

----------------------------------------------------------------------------
(* Properties of main and convert_to_markdown, under Spec *)

Messages == chat_data.messages

(* C3: convert_to_markdown raises on no message record, whatever the types   *)
(* of its fields: the only failures of a run are a file that is no JSON and  *)
(* a JSON document that is no mapping.                                       *)
C3_OnlyJsonFailures ==
  raised # "" => input_json \in {"malformed", "not_mapping"}

(* C6: when the conversion is complete the output holds the header and then  *)
(* one block per message of the archive, the k-th block being the rendering  *)
(* of the k-th message (a quoted block for a service message, a heading for  *)
(* a content message); during the loop the same holds of the messages done.  *)
C6_OneBlockPerMessage ==
  pc \in {"loop", "converted", "dirs", "written"} \/ exit_code = 0 =>
    /\ Len(output_parts) = idx
    /\ pc # "loop" => Len(output_parts) = Len(Messages) + 1
    /\ \A k \in 1..(idx - 1) :
         /\ output_parts[k + 1] = format_message(Messages[k], message_index)
         /\ output_parts[k + 1][1] =
              IF Messages[k].type = "service" THEN "> " ELSE "### "

C6_Witness ==
  /\ pc = "converted"
  /\ Len(Messages) = 2
  /\ Messages[1].type = "service"
  /\ Messages[2].type = "message"
  /\ Len(output_parts) = 3

(* C7: the output file exists only once the input was found, loaded and      *)
(* converted in full, and then holds the whole document, its directories     *)
(* made before it; a missing input ends in exit code 1 and one printed line  *)
(* with no directory made and no file written; a failed load or conversion   *)
(* leaves no file; exit code 0 comes only after the file was written.        *)
C7_WriteOnlyAfterConversion ==
  /\ written # <<>> =>
       /\ input_exists /\ input_json = "mapping" /\ raised = ""
       /\ chat_data = input_data
       /\ idx = Len(Messages) + 1
       /\ Len(output_parts) = Len(Messages) + 1
       /\ written = <<Join(output_parts, NL)>>
       /\ dir_created
  /\ dir_created => pc \in {"dirs", "written", "returned"} /\ raised = ""
  /\ ~input_exists =>
       /\ ~dir_created /\ written = <<>>
       /\ pc = "returned" =>
            exit_code = 1 /\ printed = <<"Error: Input file not found.">>
  /\ raised # "" => written = <<>> /\ ~dir_created /\ exit_code = -1
  /\ exit_code = 0 => written # <<>> /\ dir_created /\ pc = "returned"
  /\ exit_code \in {-1, 0, 1}
  /\ exit_code = 1 => ~input_exists

C7_Witness ==
  /\ exit_code = 0
  /\ written # <<>>
  /\ Len(Messages) = 2

----------------------------------------------------------------------------
(* Reply resolution, under SpecReply: archives whose messages carry every   *)
(* combination of an identifier and a reply reference, 0 among them, and    *)
(* two texts that tell apart the messages sharing an identifier.            *)

ReplyMsgs ==
  {[BareMsg EXCEPT !.id = i, !.reply_to_message_id = r, !.text = TextStr(<<t>>),
                   !.from = Str(<<Upper(t)>>)] :
     i \in {<<>>, <<0>>, <<1>>}, r \in {<<>>, <<0>>, <<1>>, <<2>>}, t \in {"a", "b"}}
  \cup
  {[BareMsg EXCEPT !.type = "service", !.id = i, !.action = "pin_message",
                   !.actor = Str(<<"B">>)] : i \in {<<>>, <<1>>}}

ReplyArchives == {Archive(ms) : ms \in SeqsUpTo(ReplyMsgs, MaxMsgs)}

InitReply == InitOver(ReplyArchives)

SpecReply == InitReply /\ [][Next]_vars

(* format_message has just rendered the content message Messages[idx - 1] *)
JustRendered ==
  /\ pc = "loop"
  /\ idx > 1
  /\ Messages[idx - 1].type # "service"

Current == Messages[idx - 1]

(* the reply line and the blank line after it, right below the block's head *)
HasReplyBlock ==
  /\ Len(lines) >= 5
  /\ lines[4] # <<>>
  /\ lines[4][1] = ReplyMark
  /\ lines[5] = <<>>

ArchiveIds == {Messages[i].id[1] : i \in {j \in 1..Len(Messages) : Messages[j].id # <<>>}}

(* C2: a content message with a reply reference gets the reply block if and *)
(* only if the reference is the identifier of some message of the archive,  *)
(* and the conversion raises in neither case.                               *)
C2_ReplyBlockIffInArchive ==
  /\ JustRendered /\ Current.reply_to_message_id # <<>> =>
       (HasReplyBlock <=> Current.reply_to_message_id[1] \in ArchiveIds)
  /\ input_json = "mapping" => raised = ""

(* the last message of the sequence that carries identifier k *)
LastWith(k) == Messages[Max({i \in 1..Len(Messages) : Messages[i].id = <<k>>})]

(* the name a block shows for the author of message m *)
ShownSender(m) ==
  IF Has(m.from) THEN Show(m.from)
  ELSE IF Has(m.actor) THEN Show(m.actor)
  ELSE <<"Unknown">>

(* C10: the index does not exist before the first message is rendered and,  *)
(* from then on, maps each identifier of the archive to the last message    *)
(* carrying it, whatever was rendered meanwhile; a reply block quotes that  *)
(* message, be it before, after or the replying message itself.             *)
C10_IndexBuiltOnceLastWins ==
  /\ pc \in {"start", "loaded", "header"} =>
       message_index = NoIndex /\ Len(output_parts) <= 1
  /\ pc \in {"loop", "converted", "dirs", "written", "returned"} /\ input_exists =>
       /\ DOMAIN message_index = ArchiveIds
       /\ \A k \in ArchiveIds : message_index[k] = LastWith(k)
  /\ JustRendered /\ HasReplyBlock =>
       /\ Current.reply_to_message_id # <<>>
       /\ Current.reply_to_message_id[1] \in ArchiveIds
       /\ lines[4] = <<ReplyMark>>
                     \o ShownSender(LastWith(Current.reply_to_message_id[1]))
                     \o <<":** ">>
                     \o LastWith(Current.reply_to_message_id[1]).text.s

(* a reply to an identifier two messages carry, rendered before the second *)
(* of them: the block quotes the later message                             *)
C10_Witness ==
  /\ JustRendered /\ HasReplyBlock
  /\ idx = 2
  /\ Len(Messages) = 2
  /\ Messages[1].id = Messages[2].id
  /\ Messages[1].text # Messages[2].text
  /\ Messages[2].type = "message"
  /\ lines[4] = <<ReplyMark>> \o Messages[2].from.s \o <<":** ">> \o Messages[2].text.s

----------------------------------------------------------------------------
(* The reply quote, under SpecQuote: an original message and a reply to it, *)
(* the original's text of every length around the limit, with newlines at   *)
(* the places that matter: the start, just before, at and after the limit.  *)

QuoteLengths == {0, 1, 2} \cup ((ReplyLimit - 2)..(ReplyLimit + LongExtra))

NewlinePlaces == {1, ReplyLimit - 1, ReplyLimit, ReplyLimit + 1}

(* n characters, a and b in turn, with a newline at each place of nl *)
LongText(n, nl) ==
  [i \in 1..n |-> IF i \in nl THEN NL ELSE IF i % 2 = 0 THEN "a" ELSE "b"]

QuoteTexts ==
  {TextStr(LongText(n, nl)) : n \in QuoteLengths, nl \in SUBSET NewlinePlaces}
  \cup
  {TextList(<<Entity("pre", Str(<<"a">>), Absent), PlainSpan(LongText(n, {}))>>) :
     n \in (ReplyLimit - 12)..(ReplyLimit - 8)}
  \cup
  {[NoText EXCEPT !.k = "null"], NoText}

QuoteArchives ==
  {Archive(<<[BareMsg EXCEPT !.id = <<1>>, !.from = Str(<<"A">>), !.text = t],
             [BareMsg EXCEPT !.id = <<2>>, !.from = Str(<<"B">>),
                             !.reply_to_message_id = <<r>>,
                             !.text = TextStr(<<"a">>)]>>) :
     t \in QuoteTexts, r \in {1, 3}}

InitQuote == InitOver(QuoteArchives)

SpecQuote == InitQuote /\ [][Next]_vars

(* what the reply line opens with: the mark, the original's sender, ":** " *)
QuoteOpening(original) == <<ReplyMark>> \o ShownSender(original) \o <<":** ">>

(* the reply line after its opening *)
Excerpt(original) ==
  SubSeq(lines[4], Len(QuoteOpening(original)) + 1, Len(lines[4]))

(* the original's extracted text with each newline made a space *)
Collapsed(original) ==
  LET t == extract_text_content(original.text)
  IN  [i \in 1..Len(t) |-> IF t[i] = NL THEN " " ELSE t[i]]

(* C1: the excerpt of a reply line is the original's extracted text with    *)
(* each newline made a space, whole when it has at most 100 characters,     *)
(* else its first 100 characters and then three dots.                       *)
C1_ReplyExcerpt ==
  JustRendered /\ HasReplyBlock =>
    LET original == LastWith(Current.reply_to_message_id[1])
        c == Collapsed(original)
    IN  /\ SubSeq(lines[4], 1, Len(QuoteOpening(original))) = QuoteOpening(original)
        /\ Len(c) > 100 =>
             /\ Len(Excerpt(original)) = 103
             /\ \A i \in 1..100 : Excerpt(original)[i] = c[i]
             /\ \A i \in 101..103 : Excerpt(original)[i] = "."
        /\ Len(c) <= 100 => Excerpt(original) = c

(* a reply to an original of 101 characters whose 100th is a newline *)
C1_Witness ==
  /\ JustRendered /\ HasReplyBlock
  /\ Messages[1].text.k = "str"
  /\ Len(Messages[1].text.s) = 101
  /\ Messages[1].text.s[100] = NL
  /\ Len(lines[4]) = 3 + 103
  /\ lines[4][3 + 100] = " "

----------------------------------------------------------------------------
(* The media tag, under SpecMedia: one message with every combination of a  *)
(* media type and of the five payload fields, and the payloads' details.    *)

Flag(present, v) == IF present THEN v ELSE Absent

MediaTypes == KnownMediaTypes \cup {"", "unsupported"}

MediaMsgs ==
  {[BareMsg EXCEPT
      !.id = <<1>>,
      !.media_type = mt,
      !.photo = Flag(p[1], Str(<<"a">>)),
      !.file = Flag(p[2], Str(<<"b">>)),
      !.location_information =
         IF p[3] THEN [k |-> "dict", latitude |-> Num(<<"1">>), longitude |-> Num(<<"2">>)]
         ELSE NoLocation,
      !.contact_information =
         IF p[4] THEN [k |-> "dict", first_name |-> Str(<<"A">>), last_name |-> Absent,
                       phone_number |-> Str(<<"7">>)]
         ELSE NoContact,
      !.poll = IF p[5] THEN [k |-> "dict", question |-> Absent] ELSE NoPoll] :
     mt \in MediaTypes, p \in [1..5 -> BOOLEAN]}
  \cup
  {[BareMsg EXCEPT !.media_type = mt, !.sticker_emoji = Str(<<"a">>),
                   !.duration_seconds = Num(<<"7">>), !.title = t, !.performer = q,
                   !.photo = Str(<<"a">>)] :
     mt \in KnownMediaTypes, t \in {Absent, Str(<<"a">>)},
     q \in {Absent, Str(<<>>), Str(<<"b">>)}}
  \cup
  {[BareMsg EXCEPT !.file = Str(<<"b">>), !.file_name = Str(<<"a">>)],
   [BareMsg EXCEPT !.poll = [k |-> "dict", question |-> Str(<<"a">>)]],
   [BareMsg EXCEPT !.contact_information =
      [k |-> "dict", first_name |-> Absent, last_name |-> Str(<<"B">>),
       phone_number |-> Absent]],
   [BareMsg EXCEPT !.location_information = [NoLocation EXCEPT !.k = "dict"]]}

MediaArchives == {Archive(<<m>>) : m \in MediaMsgs}

InitMedia == InitOver(MediaArchives)

SpecMedia == InitMedia /\ [][Next]_vars

(* the rules of the classifier in their order: what each asks of a message *)
(* and what its tag opens with                                             *)
RuleMatches(m) ==
  << m.media_type = "sticker", m.media_type = "voice_message",
     m.media_type = "video_message", m.media_type = "animation",
     m.media_type = "video_file", m.media_type = "audio_file",
     m.photo.k # "absent", m.file.k # "absent",
     m.location_information.k # "absent", m.contact_information.k # "absent",
     m.poll.k # "absent" >>

RuleOpening ==
  << "[Sticker ", "[Voice message - ", "[Video message - ", "[GIF]", "[Video]",
     "[Audio: ", "[Photo]", "[File: ", "[Location: ", "[Contact: ", "[Poll: " >>

Matching(m) == {i \in 1..11 : RuleMatches(m)[i]}

Openings(tag) == {i \in 1..Len(tag) : \E r \in 1..11 : tag[i] = RuleOpening[r]}

(* C4: the tag of a message is the tag of the first rule, in the fixed      *)
(* order, that the message matches, and no other rule leaves a trace in it; *)
(* it is empty exactly when the message matches no rule; the block holds at *)
(* most one media line.                                                     *)
C4_FirstMatchingRule ==
  JustRendered =>
    /\ (media_info = <<>>) <=> (Matching(Current) = {})
    /\ Matching(Current) # {} =>
         /\ media_info[1] = RuleOpening[Min(Matching(Current))]
         /\ Openings(media_info) = {1}
    /\ Cardinality({i \in 1..Len(lines) : lines[i] # <<>> /\ lines[i][1] = MediaMark}) =
         IF Matching(Current) = {} THEN 0 ELSE 1

(* a sticker that also carries a photo is tagged a sticker *)
C4_Witness ==
  /\ JustRendered
  /\ Current.media_type = "sticker"
  /\ Current.photo.k # "absent"
  /\ media_info = <<"[Sticker ", "]">>

----------------------------------------------------------------------------
(* The content block, under SpecBlock: a first message and a second one     *)
(* with or without media, body text, a reply reference (resolvable or not)  *)
(* and a forward origin.                                                    *)

BlockMsgs ==
  {[BareMsg EXCEPT !.id = <<2>>, !.from = Str(<<"B">>),
                   !.media_type = md[1], !.photo = md[2], !.text = t,
                   !.reply_to_message_id = r, !.forwarded_from = f] :
     md \in {<<"", Absent>>, <<"sticker", Absent>>, <<"", Str(<<"a">>)>>},
     t \in {NoText, TextStr(<<>>), TextStr(<<"a">>), TextStr(<<"a", NL, "b">>),
            TextList(<<PlainSpan(<<>>)>>), TextList(<<Entity("bold", Str(<<"a">>), Absent)>>)},
     r \in {<<>>, <<1>>, <<3>>},
     f \in {Absent, Str(<<>>), Str(<<"A">>)}}

BlockArchives ==
  {Archive(<<[BareMsg EXCEPT !.id = <<1>>, !.from = Str(<<"A">>),
                             !.text = TextStr(<<"b">>)], m>>) : m \in BlockMsgs}

InitBlock == InitOver(BlockArchives)

SpecBlock == InitBlock /\ [][Next]_vars

(* the block between its three head lines and its three closing lines *)
Body == SubSeq(lines, 4, Len(lines) - 3)

(* the places of the body's lines that open with mark *)
At(mark) == {i \in 1..Len(Body) : Body[i] # <<>> /\ Body[i][1] = mark}

Rendering == output_parts[idx]

(* C9: a content block closes with a blank line, the rule and a blank line; *)
(* in its body the placeholder stands exactly when there is neither a media *)
(* tag nor body text; the media line stands exactly when there is a tag, is *)
(* followed by a blank line exactly when there is body text too; and the    *)
(* reply line comes before the forward line, that before the media line,    *)
(* that before the body text, which is the body's last line.                *)
C9_ContentBlockShape ==
  JustRendered =>
    /\ Len(lines) >= 7
    /\ SubSeq(lines, Len(lines) - 2, Len(lines)) = << <<>>, <<"---">>, <<>> >>
    /\ SubSeq(Rendering, Len(Rendering) - 3, Len(Rendering)) = <<NL, NL, "---", NL>>
    /\ Body # <<>>
    /\ (At("*[Empty message]*") # {}) <=> (media_info = <<>> /\ text = <<>>)
    /\ (At(MediaMark) # {}) <=> (media_info # <<>>)
    /\ Cardinality(At(MediaMark)) <= 1
    /\ \A i \in At(MediaMark) :
         /\ Body[i] = <<MediaMark>> \o media_info
         /\ (i < Len(Body) /\ Body[i + 1] = <<>>) <=> (text # <<>>)
    /\ text # <<>> => Body[Len(Body)] = text
    /\ \A r \in At(ReplyMark), f \in At(ForwardMark) : r < f
    /\ \A q \in At(ReplyMark) \cup At(ForwardMark), m \in At(MediaMark) : q < m
    /\ \A q \in At(ReplyMark) \cup At(ForwardMark) \cup At(MediaMark) :
         /\ q < Len(Body) \/ text = <<>>
         /\ \A e \in At("*[Empty message]*") : q < e

(* a reply, forwarded, with a sticker and a text of two lines *)
C9_Witness ==
  /\ JustRendered
  /\ idx = 3
  /\ Len(Body) = 7
  /\ At(ReplyMark) = {1}
  /\ At(ForwardMark) = {3}
  /\ At(MediaMark) = {5}
  /\ Body[6] = <<>>
  /\ Body[7] = <<"a", NL, "b">>

----------------------------------------------------------------------------
(* The text extractor, under SpecText: one message whose text is a list of  *)
(* up to MaxSpans spans, bare strings and entities, and every entity type   *)
(* alone.                                                                   *)

EntityTypes ==
  {"bold", "italic", "code", "pre", "text_link", "link", "mention",
   "mention_name", "hashtag", "email", "phone", "strikethrough", "underline",
   "spoiler", "custom_emoji", "bank_card"}

SpanChoices ==
  {PlainSpan(<<>>), PlainSpan(<<"b">>), PlainSpan(<<"a", NL>>)}
  \cup
  {Entity(ty, t, Absent) :
     ty \in {"bold", "pre", "mention", "link"},
     t \in {Absent, Str(<<>>), Str(<<"a">>), Str(<<"@", "a">>)}}
  \cup
  {Entity("text_link", Str(<<"a">>), h) : h \in {Absent, Str(<<"b">>)}}

LoneSpans ==
  {Entity(ty, t, Absent) : ty \in EntityTypes, t \in {Absent, Str(<<"a">>)}}

TextArchives ==
  {Archive(<<[BareMsg EXCEPT !.id = <<1>>, !.text = TextList(items)]>>) :
     items \in SeqsUpTo(SpanChoices, MaxSpans) \cup {<<e>> : e \in LoneSpans}}

InitText == InitOver(TextArchives)

SpecText == InitText /\ [][Next]_vars

Spans == Current.text.items

(* where the k-th span's text starts in the output: after all earlier ones *)
RECURSIVE Offset(_)
Offset(k) == IF k <= 1 THEN 0 ELSE Offset(k - 1) + Len(SpanText(Spans[k - 1]))

(* C8: the extracted text of a list is its spans' resolved texts one after  *)
(* the other in the order of the list, nothing between them, nothing before *)
(* or after, and every span with a non-empty resolved text in it.           *)
C8_SpansInOrder ==
  JustRendered /\ Current.text.k = "list" =>
    /\ Len(text) = Offset(Len(Spans) + 1)
    /\ \A k \in 1..Len(Spans) :
         SubSeq(text, Offset(k) + 1, Offset(k) + Len(SpanText(Spans[k])))
           = SpanText(Spans[k])

(* a mention and then a preformatted block, both in the output, in order *)
C8_Witness ==
  /\ JustRendered
  /\ Current.text.k = "list"
  /\ Len(Spans) = 2
  /\ Spans[1].type = "mention"
  /\ Spans[2].type = "pre"
  /\ text = <<"@", "a", NL, BT, BT, BT, NL, "a", NL, BT, BT, BT, NL>>

----------------------------------------------------------------------------
(* The header, under SpecHeader: messages whose sender and actor are        *)
(* absent, null, empty or a name, names differing in case and in length;    *)
(* and archives that differ in their dates and in their type.               *)

HeaderMsgs ==
  {[BareMsg EXCEPT !.from = f] :
     f \in {Absent, Null, Str(<<>>), Str(<<"A">>), Str(<<"a">>), Str(<<"B">>),
            Str(<<"A", "B">>)}}
  \cup
  {[BareMsg EXCEPT !.from = fa[1], !.actor = fa[2]] :
     fa \in {<<Null, Str(<<"B">>)>>, <<Str(<<>>), Str(<<"b">>)>>,
             <<Str(<<"A">>), Str(<<"B">>)>>}}
  \cup
  {[BareMsg EXCEPT !.type = "service", !.action = "leave_group", !.actor = c] :
     c \in {Absent, Str(<<"b">>), Str(<<"A">>)}}

DatedMsgs ==
  {[BareMsg EXCEPT !.date = d, !.from = Str(<<"A">>)] :
     d \in {Absent, Null, Str(<<>>), IsoDate("1", "0"), IsoDate("1", "2"),
            Str(IsoDate("2", "0").s \o <<"Z">>), Str(<<"g", "a", "b">>)}}

HeaderArchives ==
  {Archive(ms) : ms \in SeqsUpTo(HeaderMsgs, MaxMsgs + 1) \cup SeqsUpTo(DatedMsgs, MaxMsgs)}
  \cup
  {[Archive(<<>>) EXCEPT !.type = ty, !.name = nm, !.id = Absent] :
     ty \in {Absent, Str(<<>>), Str(<<"b", "o", "t", "_", "a", "B">>)},
     nm \in {Absent, Str(<<"A">>)}}

InitHeader == InitOver(HeaderArchives)

SpecHeader == InitHeader /\ [][Next]_vars

(* the sender-or-actor value of message m: its sender, or else its actor;  *)
(* <<>> when it has neither                                                *)
SenderOrActor(m) ==
  IF m.from.k = "str" /\ m.from.s # <<>> THEN m.from.s
  ELSE IF m.actor.k = "str" THEN m.actor.s
  ELSE <<>>

DistinctSenders ==
  {SenderOrActor(Messages[i]) : i \in 1..Len(Messages)} \ {<<>>}

CountLines == {i \in 1..Len(header) : header[i] # <<>> /\ header[i][1] = "| **Participants** | "}

BulletLines == {i \in 1..Len(header) : header[i] # <<>> /\ header[i][1] = "- "}

BulletName(i) == Tail(header[i])

====
